---------------------------- MODULE Spec2Model ----------------------------
(***************************************************************************)
(* Model of the conversation summarizer (utils/summarizer.py), the message *)
(* pipeline (handlers/message.py), the notifier (handlers/notification.py) *)
(* and the rate limiter (utils/rate_limiter.py) of the WhatsApp bot.       *)
(*                                                                         *)
(* Strings are sequences of tokens.  A token is one character of an input  *)
(* text or one literal fragment of an f-string of the source; Python's +   *)
(* and f-string interpolation are \o.  None is <<>> and a present value x  *)
(* is <<x>>.                                                               *)
(***************************************************************************)
EXTENDS Integers, Sequences, FiniteSets, TLC

\* ------------------------------------------------------------------ bounds
\* Total number of top-level calls (process_message / update_summary) started.
MaxCalls == 4
\* The same, when one worker makes the update_summary calls one at a time.
MaxSeqCalls == 7
\* The same, through an outage of the generation adapter, and the number of
\* compaction generation calls per user that the outage can make fail.
MaxHealCalls == 5
MaxHealFailures == 2
\* The same, when one worker handles process_message deliveries one at a time.
MaxPmCalls == 3
\* The same, when the handler is checked for running to its end.
MaxPmFairCalls == 3
\* The same, when the outcome of compaction is settled per user.
MaxPmBoundCalls == 8
\* Number of is_rate_limited calls made, the seconds between two readings
\* of the clock that differ, and the number of times the clock advances.
MaxRlCalls == 5
TimeStep == 1200
MaxTicks == 4
\* Number of is_rate_limited calls made by the concurrent worker threads.
MaxThrCalls == 3
\* Number of update_summary calls and of is_rate_limited calls made when
\* each worker serves the deliveries of one user.
MaxIndepCalls == 5
MaxIndepRlCalls == 3
\* settings.py 42: DEFAULT_RATE_LIMIT_PER_HOUR is read from the environment
\* (30 when unset); the deployment modelled here sets it to 2.
DEFAULT_RATE_LIMIT_PER_HOUR == 2

\* Webhook worker threads that may run handlers at the same time.
Workers == {"w1", "w2"}
Users == {"u1", "u2"}

\* ------------------------------------------------------- program constants
\* summarizer.py: UPDATE_THRESHOLD = 3
UPDATE_THRESHOLD == 3
\* rate_limiter.py 33: the length of the sliding window, in seconds
WINDOW == 3600

\* ------------------------------------------------------------ input values
None == <<>>
Some(x) == <<x>>

\* Message bodies a webhook delivers to process_message: no body, blank,
\* padded text, and a padded mixed-case media request.
Messages ==
    { None,
      Some(<<" ", "\t">>),
      Some(<<" ", "h", "i", " ">>),
      Some(<<"P", "h", "O", "t", "o", "\n">>) }

\* The message text of the calls whose outcome of compaction is settled per
\* user: one text that is neither missing nor blank, so every call appends.
BoundMessages == { Some(<<" ", "h", "i", " ">>) }

\* Turn texts passed to update_summary when it is called directly.
SeqTexts == { <<"a">> }

\* Texts the generation adapter can return as a compacted summary / a reply.
Summaries == { <<"S", "1">>, <<"S", "2">> }
Replies == { <<"o", "k">> }

Roles == {"User", "Bot"}

\* ------------------------------------------------------- string operations
Whitespace == {" ", "\t", "\n"}

RECURSIVE LStrip(_)
LStrip(s) ==
    IF s # <<>> /\ Head(s) \in Whitespace THEN LStrip(Tail(s)) ELSE s

RECURSIVE RStrip(_)
RStrip(s) ==
    IF s # <<>> /\ s[Len(s)] \in Whitespace
    THEN RStrip(SubSeq(s, 1, Len(s) - 1))
    ELSE s

\* str.strip()
Strip(s) == RStrip(LStrip(s))

LowerChar(c) ==
    CASE c = "P" -> "p"
      [] c = "H" -> "h"
      [] c = "O" -> "o"
      [] c = "T" -> "t"
      [] c = "V" -> "v"
      [] OTHER -> c

\* str.lower()
Lower(s) == [i \in 1..Len(s) |-> LowerChar(s[i])]

\* `k in s` for strings
Contains(s, k) ==
    \E i \in 0..(Len(s) - Len(k)) : SubSeq(s, i + 1, i + Len(k)) = k

\* Mutant of preprocess_message: the text is not trimmed.
preprocess_message_NoStrip(message_text) ==
    IF message_text = None THEN <<>> ELSE message_text[1]

\* message.py 25-40: preprocess_message
preprocess_message(message_text) ==
    IF message_text = None THEN <<>> ELSE Strip(message_text[1])

\* message.py 52
media_keywords ==
    { <<"v", "i", "d", "e", "o">>,
      <<"p", "h", "o", "t", "o">>,
      <<"v", "o", "i", "c", "e">> }

\* message.py 42-53: check_media_request
check_media_request(message_text) ==
    \E keyword \in media_keywords : Contains(Lower(message_text), keyword)

\* message.py 77, 85: the fallback reply
FALLBACK == <<"I didn't catch that. Could you please repeat?">>

\* ------------------------------------------------------------------- state
VARIABLES
    conversation_summaries, \* the Mongo collection: a sequence of documents
    pc,                     \* per worker: position in the running handler
    pm,                     \* per worker: locals of process_message
    us,                     \* per worker: locals of update_summary
    result,                 \* per worker: outcome of the last top-level call
    log,                    \* per worker: collaborator calls of the current call
    appends,                \* per user and role: appends completed
    pending,                \* per user: the lines appended since the last
                            \* successful compaction was stored
    gen_calls,              \* per user: compaction generation calls made
    compacted,              \* <<user, line>> embedded in a successful compaction prompt
    calls,                  \* number of top-level calls started
    user_message_timestamps,\* rate limiter: the module-level dict
    now,                    \* time.time()
    rl,                     \* rate limiter: the last is_rate_limited call
    admit_log,              \* per user: <<time, limited>> of every call made
    lists,                  \* threads: the list objects created so far
    stored_list,            \* threads: per user, the list object the dict holds
    rlw,                    \* threads: per worker, locals of is_rate_limited
    admitted,               \* threads: <<user, time, call>> of every admission
    thr_calls               \* threads: number of is_rate_limited calls started

convVars == <<conversation_summaries, pc, pm, us, result, log, appends, pending,
              gen_calls, compacted, calls>>
thrVars == <<lists, stored_list, rlw, admitted, thr_calls>>
rlVars == <<user_message_timestamps, now, rl, admit_log, thrVars>>
vars == <<convVars, rlVars>>

\* ---------------------------------------------------------------- storage
\* summarizer.py 48-53: the document update_summary creates for a new user
NewRecord(user_id) ==
    [user_id |-> user_id, summary |-> <<>>, unsummarized_count |-> 0,
     buffer |-> <<>>]

\* Mutant of Matching: the filter on user_id is dropped.
Matching_AnyUser(coll, user_id) == 1..Len(coll)

\* the documents a {"user_id": user_id} filter selects
Matching(coll, user_id) == { i \in 1..Len(coll) : coll[i].user_id = user_id }

FirstMatch(coll, user_id) ==
    CHOOSE i \in Matching(coll, user_id) :
        \A j \in Matching(coll, user_id) : i <= j

\* collection.find_one({"user_id": user_id}): the first match, or None
find_one(coll, user_id) ==
    IF Matching(coll, user_id) = {} THEN None
    ELSE Some(coll[FirstMatch(coll, user_id)])

\* collection.insert_one(record)
insert_one(coll, record) == Append(coll, record)

\* {"$set": fields} applied to one document
SetFields(doc, fields) ==
    [f \in (DOMAIN doc) \cup (DOMAIN fields) |->
        IF f \in DOMAIN fields THEN fields[f] ELSE doc[f]]

\* Mutant of update_one: the count is written by a later write, not with
\* the other fields.
update_one_SkipsCount(coll, user_id, fields) ==
    IF Matching(coll, user_id) = {} THEN coll
    ELSE [coll EXCEPT ![FirstMatch(coll, user_id)] =
              [f \in (DOMAIN @) \cup (DOMAIN fields) |->
                  IF f \in (DOMAIN fields) \ {"unsummarized_count"}
                  THEN fields[f] ELSE @[f]]]

\* collection.update_one({"user_id": user_id}, {"$set": fields}): the first
\* match is updated; nothing happens when there is none
update_one(coll, user_id, fields) ==
    IF Matching(coll, user_id) = {} THEN coll
    ELSE [coll EXCEPT ![FirstMatch(coll, user_id)] =
              SetFields(coll[FirstMatch(coll, user_id)], fields)]

\* ---------------------------------------------------------- update_summary
NoUs ==
    [user_id |-> "", new_message |-> <<>>, role |-> "",
     record |-> None, updated_buffer |-> <<>>, unsummarized_count |-> 0,
     update_fields |-> None, prompt |-> <<>>, current_summary |-> <<>>,
     updated_summary |-> <<>>, overlapped |-> FALSE]

NoPm ==
    [active |-> FALSE, at |-> "", user_id |-> "", message_text |-> None,
     processed_text |-> <<>>, current_summary |-> <<>>, prompt |-> <<>>,
     response |-> <<>>]

NoResult == [kind |-> "none", value |-> <<>>]

\* One collaborator call: what was called, its subject (the user of a
\* storage call, the purpose of a generation call, the subject of an alert),
\* its text (prompt or alert body), whether it succeeded and what it returned.
LogEntry(call, subject, text, ok) ==
    [call |-> call, subject |-> subject, text |-> text, ok |-> ok,
     value |-> <<>>]

LlmEntry(purpose, prompt, ok, value) ==
    [call |-> "get_llm_response", subject |-> purpose, text |-> prompt,
     ok |-> ok, value |-> value]

\* Mutant of NewEntry: the line is not terminated.
NewEntry_NoNewline(role, new_message) == <<role, ": ">> \o new_message

\* summarizer.py 57: new_entry = f"{role}: {new_message}\n"
NewEntry(role, new_message) ==
    <<role, ": ">> \o new_message \o <<"\n">>

\* Every text that can become a turn of a buffer.
TurnTexts ==
    SeqTexts \cup Replies \cup { Strip(m[1]) : m \in Messages \ {None} }

\* The role-tagged lines a buffer is made of.
LinesIn(buffer) ==
    { NewEntry(r, t) : r \in Roles, t \in TurnTexts } \cap
    { SubSeq(buffer, i, j) : i, j \in 1..Len(buffer) }

\* Mutant of NextCount: every turn is counted, whatever its role.
NextCount_AnyRole(count, role) == count + 1

\* summarizer.py 61-63: the count after this turn
NextCount(count, role) == IF role = "User" THEN count + 1 ELSE count

\* Mutant of ThresholdReached: compaction starts only when the count is
\* exactly the threshold.
ThresholdReached_ExactOnly(count) == count = UPDATE_THRESHOLD

\* Mutant of ThresholdReached: compaction starts one turn late.
ThresholdReached_OneLate(count) == count >= UPDATE_THRESHOLD + 1

\* Mutant of ThresholdReached: compaction starts one turn early.
ThresholdReached_OneEarly(count) == count >= UPDATE_THRESHOLD - 1

\* summarizer.py 73: does this append compact?
ThresholdReached(count) == count >= UPDATE_THRESHOLD

\* summarizer.py 77-84: the compaction prompt
SummaryPrompt(current_summary, updated_buffer) ==
    <<"You are tasked with summarizing the conversation between a user and a bot. Below is the current summary and the new interactions since the last summary update. Generate an updated, concise summary that captures all key points and changes in context.\n",
      "Current Summary: ">>
        \o current_summary \o <<"\n", "New Interactions: ">>
        \o updated_buffer \o <<"\n", "Output only the new summary text.">>

\* summarizer.py 56-84: the locals computed from the loaded (or created)
\* record, up to the point where the prompt is ready
Prepare(u, record) ==
    LET buf == record.buffer \o NewEntry(u.role, u.new_message)
        cnt == NextCount(record.unsummarized_count, u.role)
    IN  [u EXCEPT
            !.record = Some(record),
            !.updated_buffer = buf,
            !.unsummarized_count = cnt,
            !.update_fields =
                Some([buffer |-> buf, unsummarized_count |-> cnt,
                      last_updated |-> now]),
            !.current_summary = record.summary,
            !.prompt = IF ThresholdReached(cnt)
                       THEN SummaryPrompt(record.summary, buf) ELSE <<>>,
            !.updated_summary = IF ThresholdReached(cnt)
                                THEN <<>> ELSE record.summary]

AfterPrepare(u) ==
    IF ThresholdReached(u.unsummarized_count) THEN "generate" ELSE "update_one"

\* The fields of a worker's state that every top-level call starts from.
Begin(w, newPc, newPm, newUs, newResult, newLog) ==
    /\ pc' = [pc EXCEPT ![w] = newPc]
    /\ pm' = [pm EXCEPT ![w] = newPm]
    /\ us' = [us EXCEPT ![w] = newUs]
    /\ result' = [result EXCEPT ![w] = newResult]
    /\ log' = [log EXCEPT ![w] = newLog]
    /\ calls' = calls + 1

CallFrame(user_id, new_message, role) ==
    [NoUs EXCEPT !.user_id = user_id, !.new_message = new_message,
                 !.role = role]

\* The workers that are inside update_summary for user_id.
Inside(user_id) ==
    { v \in Workers : pc[v] \in {"find_one", "insert_one", "generate",
                                  "update_one"}
                      /\ us[v].user_id = user_id }

\* update_summary(user_id, new_message, role) called directly.  The call and
\* the calls for the same user that are still running are marked as
\* overlapping in time.
UpdateSummaryCall(w, bound, user_id, new_message, role) ==
    /\ pc[w] \in {"idle", "done"}
    /\ calls < bound
    /\ pc' = [pc EXCEPT ![w] = "find_one"]
    /\ pm' = [pm EXCEPT ![w] = NoPm]
    /\ us' = [v \in Workers |->
                IF v = w
                THEN [CallFrame(user_id, new_message, role) EXCEPT
                         !.overlapped = Inside(user_id) # {}]
                ELSE IF v \in Inside(user_id)
                THEN [us[v] EXCEPT !.overlapped = TRUE]
                ELSE us[v]]
    /\ result' = [result EXCEPT ![w] = NoResult]
    /\ log' = [log EXCEPT ![w] = <<>>]
    /\ calls' = calls + 1
    /\ UNCHANGED <<conversation_summaries, appends, pending, gen_calls, compacted,
                   rlVars>>

\* summarizer.py 45-46 (and 56-84 when the record exists)
FindOne(w) ==
    /\ pc[w] = "find_one"
    /\ LET found == find_one(conversation_summaries, us[w].user_id)
           u == IF found = None
                THEN [us[w] EXCEPT !.record = Some(NewRecord(us[w].user_id))]
                ELSE Prepare(us[w], found[1])
       IN  /\ us' = [us EXCEPT ![w] = u]
           /\ pc' = [pc EXCEPT ![w] =
                        IF found = None THEN "insert_one" ELSE AfterPrepare(u)]
    /\ log' = [log EXCEPT ![w] =
                  Append(@, LogEntry("find_one", us[w].user_id, <<>>, TRUE))]
    /\ UNCHANGED <<conversation_summaries, pm, result, appends, pending, gen_calls,
                   compacted, calls,
                   rlVars>>

\* summarizer.py 54 (and 56-84)
InsertOne(w) ==
    /\ pc[w] = "insert_one"
    /\ conversation_summaries' =
           insert_one(conversation_summaries, us[w].record[1])
    /\ LET u == Prepare(us[w], us[w].record[1])
       IN  /\ us' = [us EXCEPT ![w] = u]
           /\ pc' = [pc EXCEPT ![w] = AfterPrepare(u)]
    /\ log' = [log EXCEPT ![w] =
                  Append(@, LogEntry("insert_one", us[w].user_id, <<>>, TRUE))]
    /\ UNCHANGED <<pm, result, appends, pending, gen_calls, compacted, calls,
                   rlVars>>

\* Mutant of CompactionSucceeded: the count is not reset.
CompactionSucceeded_KeepsCount(u, new_summary) ==
    [u EXCEPT
        !.update_fields =
            Some(SetFields(u.update_fields[1],
                           [summary |-> new_summary, buffer |-> <<>>])),
        !.updated_summary = new_summary]

\* Mutant of CompactionSucceeded: the buffer is not cleared.
CompactionSucceeded_KeepsBuffer(u, new_summary) ==
    [u EXCEPT
        !.update_fields =
            Some(SetFields(u.update_fields[1],
                           [summary |-> new_summary,
                            unsummarized_count |-> 0])),
        !.updated_summary = new_summary]

\* summarizer.py 88-91: the locals after a successful generation
CompactionSucceeded(u, new_summary) ==
    [u EXCEPT
        !.update_fields =
            Some(SetFields(u.update_fields[1],
                           [summary |-> new_summary,
                            unsummarized_count |-> 0,
                            buffer |-> <<>>])),
        !.updated_summary = new_summary]

\* Mutant of CompactionFailed: the pending turns are dropped as they are
\* after a successful compaction.
CompactionFailed_Resets(u) ==
    [u EXCEPT
        !.update_fields =
            Some(SetFields(u.update_fields[1],
                           [unsummarized_count |-> 0, buffer |-> <<>>])),
        !.updated_summary = u.current_summary]

\* Mutant of CompactionFailed: the count is reset although the pending
\* turns are kept.
CompactionFailed_ClearsCount(u) ==
    [u EXCEPT
        !.update_fields =
            Some(SetFields(u.update_fields[1], [unsummarized_count |-> 0])),
        !.updated_summary = u.current_summary]

\* Mutant of CompactionFailed: nothing is returned in place of the stale
\* summary.
CompactionFailed_ReturnsNothing(u) == [u EXCEPT !.updated_summary = <<>>]

\* summarizer.py 93-96: the locals after a failed generation
CompactionFailed(u) == [u EXCEPT !.updated_summary = u.current_summary]

\* summarizer.py 87: get_llm_response(prompt) returns new_summary
GenerateOk(w, new_summary) ==
    /\ pc[w] = "generate"
    /\ us' = [us EXCEPT ![w] = CompactionSucceeded(us[w], new_summary)]
    /\ pc' = [pc EXCEPT ![w] = "update_one"]
    /\ log' = [log EXCEPT ![w] =
                  Append(@, LlmEntry("compaction", us[w].prompt, TRUE,
                                     new_summary))]
    /\ gen_calls' = [gen_calls EXCEPT ![us[w].user_id] = @ + 1]
    /\ compacted' = compacted \cup
           { <<us[w].user_id, line>> : line \in LinesIn(us[w].updated_buffer) }
    /\ UNCHANGED <<conversation_summaries, pm, result, appends, pending, calls,
                   rlVars>>

\* summarizer.py 87, 93: get_llm_response(prompt) raises
GenerateFail(w) ==
    /\ pc[w] = "generate"
    /\ us' = [us EXCEPT ![w] = CompactionFailed(us[w])]
    /\ pc' = [pc EXCEPT ![w] = "update_one"]
    /\ log' = [log EXCEPT ![w] =
                  Append(@, LlmEntry("compaction", us[w].prompt, FALSE,
                                     <<>>))]
    /\ gen_calls' = [gen_calls EXCEPT ![us[w].user_id] = @ + 1]
    /\ UNCHANGED <<conversation_summaries, pm, result, appends, pending, compacted,
                   calls,
                   rlVars>>

\* message.py 97-105: the reply prompt
ReplyPrompt(current_summary, processed_text) ==
    <<"You are engaged in a playful conversation with the user. Use the following conversation context to generate a natural and engaging reply.\n\n",
      "Conversation Summary:\n">>
        \o current_summary \o <<"\n\n", "User's Message:\n">>
        \o processed_text
        \o <<"\n\n", "Respond naturally while maintaining the tone of the conversation.">>

\* summarizer.py 102-103, and the caller's continuation: a direct call
\* returns updated_summary; process_message goes on to build the reply
\* prompt (message.py 94-105) or returns the response (message.py 117-121)
UpdateOne(w) ==
    /\ pc[w] = "update_one"
    /\ conversation_summaries' =
           update_one(conversation_summaries, us[w].user_id,
                      us[w].update_fields[1])
    /\ log' = [log EXCEPT ![w] =
                  Append(@, LogEntry("update_one", us[w].user_id, <<>>, TRUE))]
    /\ appends' = [appends EXCEPT ![us[w].user_id][us[w].role] = @ + 1]
    /\ pending' = [pending EXCEPT ![us[w].user_id] =
                      IF "summary" \in DOMAIN us[w].update_fields[1]
                      THEN <<>>
                      ELSE Append(@, NewEntry(us[w].role, us[w].new_message))]
    /\ IF ~pm[w].active
       THEN /\ result' = [result EXCEPT ![w] =
                             [kind |-> "returned",
                              value |-> us[w].updated_summary]]
            /\ pc' = [pc EXCEPT ![w] = "done"]
            /\ pm' = pm
       ELSE IF pm[w].at = "user_append"
       THEN /\ pm' = [pm EXCEPT
                         ![w].current_summary = us[w].updated_summary,
                         ![w].prompt = ReplyPrompt(us[w].updated_summary,
                                                   pm[w].processed_text)]
            /\ pc' = [pc EXCEPT ![w] = "reply"]
            /\ result' = result
       ELSE /\ result' = [result EXCEPT ![w] =
                             [kind |-> "returned", value |-> pm[w].response]]
            /\ pc' = [pc EXCEPT ![w] = "done"]
            /\ pm' = pm
    /\ UNCHANGED <<us, gen_calls, compacted, calls,
                   rlVars>>

\* ------------------------------------------------------------ notification
\* Mutant of send_email_alert: an SMTP failure is raised to the caller.
send_email_alert_Raises(subject, message, smtp_ok) ==
    [attempts |-> <<LogEntry("send_email_alert", subject, message, smtp_ok)>>,
     raised |-> ~smtp_ok]

\* notification.py 16-42: one SMTP attempt; smtp_ok says whether it went
\* through.  A failure is logged and swallowed: the call never raises.
send_email_alert(subject, message, smtp_ok) ==
    [attempts |-> <<LogEntry("send_email_alert", subject, message, smtp_ok)>>,
     raised |-> FALSE]

\* --------------------------------------------------------- process_message
\* message.py 90: the body of the media alert
MediaAlertBody(user_id, processed_text) ==
    <<"User ", user_id, " requested media: ">> \o processed_text

\* Mutant of ErrorAlertBody: the prompt is left out of the alert.
ErrorAlertBody_NoPrompt(user_id, prompt) ==
    <<"Error for user ", user_id, "\nError: ", "str(e)">>

\* message.py 112: the body of the failure alert
ErrorAlertBody(user_id, prompt) ==
    <<"Error for user ", user_id, " with prompt: ">> \o prompt
        \o <<"\nError: ", "str(e)">>

Returned(value) == [kind |-> "returned", value |-> value]
Raised(error) == [kind |-> "raised", value |-> <<error>>]

PmFrame(user_id, message_text, processed_text, at) ==
    [NoPm EXCEPT !.active = TRUE, !.at = at, !.user_id = user_id,
                 !.message_text = message_text,
                 !.processed_text = processed_text]

\* message.py 74-94: process_message up to the call of update_summary
ProcessMessage(w, bound, message_text, user_id, smtp_ok) ==
    /\ pc[w] \in {"idle", "done"}
    /\ calls < bound
    /\ LET processed_text == preprocess_message(message_text)
           alert == send_email_alert("Media Request Detected",
                        MediaAlertBody(user_id, processed_text), smtp_ok)
       IN  IF message_text = None \/ processed_text = <<>>
           THEN Begin(w, "done",
                      PmFrame(user_id, message_text, processed_text, "fallback"),
                      NoUs, Returned(FALLBACK), <<>>)
           ELSE IF check_media_request(processed_text) /\ alert.raised
           THEN Begin(w, "done",
                      PmFrame(user_id, message_text, processed_text, "media"),
                      NoUs, Raised("SMTPException"), alert.attempts)
           ELSE Begin(w, "find_one",
                      PmFrame(user_id, message_text, processed_text,
                              "user_append"),
                      CallFrame(user_id, processed_text, "User"),
                      NoResult,
                      IF check_media_request(processed_text)
                      THEN alert.attempts ELSE <<>>)
    /\ UNCHANGED <<conversation_summaries, appends, pending, gen_calls, compacted,
                   rlVars>>

\* message.py 107-109, 116: get_llm_response(prompt) returns response, and
\* update_summary(user_id, response, role="Bot") is called
ReplyOk(w, response) ==
    /\ pc[w] = "reply"
    /\ log' = [log EXCEPT ![w] =
                  Append(@, LlmEntry("reply", pm[w].prompt, TRUE, response))]
    /\ pm' = [pm EXCEPT ![w].response = response, ![w].at = "bot_append"]
    /\ us' = [us EXCEPT ![w] = CallFrame(pm[w].user_id, response, "Bot")]
    /\ pc' = [pc EXCEPT ![w] = "find_one"]
    /\ UNCHANGED <<conversation_summaries, result, appends, pending, gen_calls,
                   compacted, calls,
                   rlVars>>

\* Mutant of ReplyFail: after the alert the handler goes on to the Bot-role
\* append instead of raising.
ReplyFail_StillAppends(w, smtp_ok) ==
    /\ pc[w] = "reply"
    /\ LET alert == send_email_alert("LLM API Failure",
                        ErrorAlertBody(pm[w].user_id, pm[w].prompt), smtp_ok)
       IN  log' = [log EXCEPT ![w] =
                      Append(@, LlmEntry("reply", pm[w].prompt, FALSE, <<>>))
                          \o alert.attempts]
    /\ pm' = [pm EXCEPT ![w].at = "bot_append"]
    /\ us' = [us EXCEPT ![w] = CallFrame(pm[w].user_id, <<>>, "Bot")]
    /\ pc' = [pc EXCEPT ![w] = "find_one"]
    /\ UNCHANGED <<conversation_summaries, result, appends, pending, gen_calls,
                   compacted, calls,
                   rlVars>>

\* Mutant of ReplyFail: the failure undoes the User-role append, writing the
\* record read by that append back to the collection.
ReplyFail_RollsBack(w, smtp_ok) ==
    /\ pc[w] = "reply"
    /\ LET alert == send_email_alert("LLM API Failure",
                        ErrorAlertBody(pm[w].user_id, pm[w].prompt), smtp_ok)
       IN  /\ log' = [log EXCEPT ![w] =
                      Append(@, LlmEntry("reply", pm[w].prompt, FALSE, <<>>))
                          \o alert.attempts]
           /\ result' = [result EXCEPT ![w] =
                  IF alert.raised THEN Raised("SMTPException")
                  ELSE Raised("LLMError")]
    /\ conversation_summaries' =
           update_one(conversation_summaries, pm[w].user_id,
                      [summary |-> us[w].record[1].summary,
                       buffer |-> us[w].record[1].buffer,
                       unsummarized_count |->
                           us[w].record[1].unsummarized_count])
    /\ pm' = [pm EXCEPT ![w].at = "failed"]
    /\ pc' = [pc EXCEPT ![w] = "done"]
    /\ UNCHANGED <<us, appends, pending, gen_calls, compacted, calls, rlVars>>

\* message.py 110-114: get_llm_response(prompt) raises; the alert is sent and
\* the exception is raised again
ReplyFail(w, smtp_ok) ==
    /\ pc[w] = "reply"
    /\ LET alert == send_email_alert("LLM API Failure",
                        ErrorAlertBody(pm[w].user_id, pm[w].prompt), smtp_ok)
       IN  /\ log' = [log EXCEPT ![w] =
                      Append(@, LlmEntry("reply", pm[w].prompt, FALSE, <<>>))
                          \o alert.attempts]
           /\ result' = [result EXCEPT ![w] =
                  IF alert.raised THEN Raised("SMTPException")
                  ELSE Raised("LLMError")]
    /\ pm' = [pm EXCEPT ![w].at = "failed"]
    /\ pc' = [pc EXCEPT ![w] = "done"]
    /\ UNCHANGED <<conversation_summaries, us, appends, pending, gen_calls, compacted,
                   calls,
                   rlVars>>

\* ------------------------------------------------------------ rate limiter
\* dict.get(key, default) and dict[key] = value
DictGet(d, key, default) == IF key \in DOMAIN d THEN d[key] ELSE default

DictPut(d, key, value) ==
    [k \in (DOMAIN d) \cup {key} |-> IF k = key THEN value ELSE d[k]]

\* Mutant of Evict: a timestamp exactly one window old is kept.
Evict_KeepsBoundary(timestamps, current_time) ==
    SelectSeq(timestamps, LAMBDA timestamp : current_time - timestamp <= WINDOW)

\* rate_limiter.py 33: the timestamps within the last hour
Evict(timestamps, current_time) ==
    SelectSeq(timestamps, LAMBDA timestamp : current_time - timestamp < WINDOW)

\* rate_limiter.py 39: is the user over the limit?
OverLimit(timestamps) == Len(timestamps) >= DEFAULT_RATE_LIMIT_PER_HOUR

\* Mutant of RateLimitStore: the attempt is recorded before the limit is
\* checked, so a rejected attempt is recorded too.
RateLimitStore_RecordsRejected(d, user_id, current_time) ==
    DictPut(d, user_id,
            Append(Evict(DictGet(d, user_id, <<>>), current_time),
                   current_time))

\* rate_limiter.py 29-45: the dict after is_rate_limited(user_id)
RateLimitStore(d, user_id, current_time) ==
    LET timestamps == Evict(DictGet(d, user_id, <<>>), current_time)
    IN  IF OverLimit(timestamps)
        THEN DictPut(d, user_id, timestamps)
        ELSE DictPut(d, user_id, Append(timestamps, current_time))

\* rate_limiter.py 29-45: the value is_rate_limited(user_id) returns
RateLimitResult(d, user_id, current_time) ==
    OverLimit(Evict(DictGet(d, user_id, <<>>), current_time))

\* rate_limiter.py 19-45: is_rate_limited(user_id)
IsRateLimited(user_id) ==
    /\ rl.calls < MaxRlCalls
    /\ user_message_timestamps' =
           RateLimitStore(user_message_timestamps, user_id, now)
    /\ rl' = [user_id |-> user_id, current_time |-> now,
              before |-> DictGet(user_message_timestamps, user_id, <<>>),
              limited |-> RateLimitResult(user_message_timestamps, user_id, now),
              calls |-> rl.calls + 1]
    /\ admit_log' = [admit_log EXCEPT ![user_id] =
           Append(@, <<now, RateLimitResult(user_message_timestamps,
                                            user_id, now)>>)]
    /\ now' = now
    /\ UNCHANGED <<convVars, thrVars>>

\* time passes between two calls
Tick ==
    /\ now < MaxTicks * TimeStep
    /\ now' = now + TimeStep
    /\ UNCHANGED <<user_message_timestamps, rl, admit_log, convVars, thrVars>>

\* -------------------------------------- rate limiter, one step at a time
\* is_rate_limited run by concurrent worker threads, which can be switched
\* between any two statements.  A Python list is an object: lists[i] is the
\* content of list object i, and the dict and the local `timestamps` hold
\* references to list objects.  Reference 0 is the key being absent, for
\* which .get returns a new empty list nobody else refers to.
NoRlw ==
    [pc |-> "idle", user_id |-> "", current_time |-> 0, timestamps |-> 0,
     limited |-> FALSE, call |-> 0]

ListAt(ref) == IF ref = 0 THEN <<>> ELSE lists[ref]

\* rate_limiter.py 29: current_time = time.time()
ThrCall(w, user_id) ==
    /\ rlw[w].pc \in {"idle", "returned"}
    /\ thr_calls < MaxThrCalls
    /\ thr_calls' = thr_calls + 1
    /\ rlw' = [rlw EXCEPT ![w] =
                  [NoRlw EXCEPT !.pc = "get", !.user_id = user_id,
                                !.current_time = now,
                                !.call = thr_calls + 1]]
    /\ UNCHANGED <<lists, stored_list, admitted, now,
                   user_message_timestamps, rl, admit_log, convVars>>

\* rate_limiter.py 31: timestamps = user_message_timestamps.get(user_id, [])
ThrGet(w) ==
    /\ rlw[w].pc = "get"
    /\ rlw' = [rlw EXCEPT ![w].timestamps = stored_list[rlw[w].user_id],
                          ![w].pc = "evict"]
    /\ UNCHANGED <<lists, stored_list, admitted, thr_calls, now,
                   user_message_timestamps, rl, admit_log, convVars>>

\* rate_limiter.py 33: the comprehension builds a new list object
ThrEvict(w) ==
    /\ rlw[w].pc = "evict"
    /\ lists' = Append(lists,
                       Evict(ListAt(rlw[w].timestamps), rlw[w].current_time))
    /\ rlw' = [rlw EXCEPT ![w].timestamps = Len(lists) + 1,
                          ![w].pc = "store"]
    /\ UNCHANGED <<stored_list, admitted, thr_calls, now,
                   user_message_timestamps, rl, admit_log, convVars>>

\* rate_limiter.py 34: user_message_timestamps[user_id] = timestamps
ThrStore(w) ==
    /\ rlw[w].pc = "store"
    /\ stored_list' = [stored_list EXCEPT ![rlw[w].user_id] =
                          rlw[w].timestamps]
    /\ rlw' = [rlw EXCEPT ![w].pc = "check"]
    /\ UNCHANGED <<lists, admitted, thr_calls, now,
                   user_message_timestamps, rl, admit_log, convVars>>

\* rate_limiter.py 39-40: over the limit, return True
ThrCheck(w) ==
    /\ rlw[w].pc = "check"
    /\ rlw' = [rlw EXCEPT
                  ![w].limited = OverLimit(lists[rlw[w].timestamps]),
                  ![w].pc = IF OverLimit(lists[rlw[w].timestamps])
                            THEN "returned" ELSE "append"]
    /\ UNCHANGED <<lists, stored_list, admitted, thr_calls, now,
                   user_message_timestamps, rl, admit_log, convVars>>

\* rate_limiter.py 43: timestamps.append(current_time) changes the list
\* object, and with it what the dict holds when it refers to that object
ThrAppend(w) ==
    /\ rlw[w].pc = "append"
    /\ lists' = [lists EXCEPT ![rlw[w].timestamps] =
                    Append(@, rlw[w].current_time)]
    /\ rlw' = [rlw EXCEPT ![w].pc = "store_again"]
    /\ UNCHANGED <<stored_list, admitted, thr_calls, now,
                   user_message_timestamps, rl, admit_log, convVars>>

\* rate_limiter.py 44-45: the list is stored again and False is returned
ThrStoreAgain(w) ==
    /\ rlw[w].pc = "store_again"
    /\ stored_list' = [stored_list EXCEPT ![rlw[w].user_id] =
                          rlw[w].timestamps]
    /\ rlw' = [rlw EXCEPT ![w].pc = "returned"]
    /\ admitted' = admitted \cup
           {<<rlw[w].user_id, rlw[w].current_time, rlw[w].call>>}
    /\ UNCHANGED <<lists, thr_calls, now,
                   user_message_timestamps, rl, admit_log, convVars>>

RlInit ==
    /\ user_message_timestamps = <<>>
    /\ now = 0
    /\ rl = [user_id |-> "", current_time |-> 0, before |-> <<>>,
             limited |-> FALSE, calls |-> 0]
    /\ admit_log = [u \in Users |-> <<>>]
    /\ lists = <<>>
    /\ stored_list = [u \in Users |-> 0]
    /\ rlw = [w \in Workers |-> NoRlw]
    /\ admitted = {}
    /\ thr_calls = 0

\* ----------------------------------------------------------- specification
ConvInit ==
    /\ conversation_summaries = <<>>
    /\ pc = [w \in Workers |-> "idle"]
    /\ pm = [w \in Workers |-> NoPm]
    /\ us = [w \in Workers |-> NoUs]
    /\ result = [w \in Workers |-> NoResult]
    /\ log = [w \in Workers |-> <<>>]
    /\ appends = [u \in Users |-> [r \in Roles |-> 0]]
    /\ pending = [u \in Users |-> <<>>]
    /\ gen_calls = [u \in Users |-> 0]
    /\ compacted = {}
    /\ calls = 0

Init == ConvInit /\ RlInit

\* Concurrent update_summary calls: the calls of concurrent webhook
\* deliveries interleave at their storage and generation calls.
Next ==
    \E w \in Workers :
        \/ \E u \in Users, t \in SeqTexts, r \in Roles :
               UpdateSummaryCall(w, MaxCalls, u, t, r)
        \/ FindOne(w)
        \/ InsertOne(w)
        \/ \E s \in Summaries : GenerateOk(w, s)
        \/ GenerateFail(w)
        \/ UpdateOne(w)

Spec == Init /\ [][Next]_vars

\* update_summary calls made one at a time: each returns before the next.
SeqNext ==
    \/ \E u \in Users, t \in SeqTexts, r \in Roles :
           UpdateSummaryCall("w1", MaxSeqCalls, u, t, r)
    \/ FindOne("w1")
    \/ InsertOne("w1")
    \/ \E s \in Summaries : GenerateOk("w1", s)
    \/ GenerateFail("w1")
    \/ UpdateOne("w1")

SeqSpec == Init /\ [][SeqNext]_vars

\* The steps of an update_summary call that has started, when the
\* generation adapter fails at most MaxHealFailures times per user and
\* succeeds from then on.
HealStep ==
    \/ FindOne("w1")
    \/ InsertOne("w1")
    \/ \E s \in Summaries : GenerateOk("w1", s)
    \/ /\ pc["w1"] = "generate"
       /\ gen_calls[us["w1"].user_id] < MaxHealFailures
       /\ GenerateFail("w1")
    \/ UpdateOne("w1")

HealNext ==
    \/ \E u \in Users, t \in SeqTexts, r \in Roles :
           UpdateSummaryCall("w1", MaxHealCalls, u, t, r)
    \/ HealStep

\* update_summary calls made one at a time through an outage of the
\* generation adapter that ends; the thread keeps running and every storage
\* and generation call returns or raises.
HealSpec == Init /\ [][HealNext]_vars /\ WF_vars(HealStep)

\* process_message calls made one at a time.
PmNext ==
    \/ \E m \in Messages, u \in Users, ok \in BOOLEAN :
           ProcessMessage("w1", MaxPmCalls, m, u, ok)
    \/ FindOne("w1")
    \/ InsertOne("w1")
    \/ \E s \in Summaries : GenerateOk("w1", s)
    \/ GenerateFail("w1")
    \/ UpdateOne("w1")
    \/ \E r \in Replies : ReplyOk("w1", r)
    \/ \E ok \in BOOLEAN : ReplyFail("w1", ok)

PmSpec == Init /\ [][PmNext]_vars

\* The users for whom every compaction generation call fails; for the
\* other users every compaction generation call succeeds.
Outage == {"u2"}

\* process_message calls made one at a time, when the outcome of the
\* compaction generation calls is settled per user: all of them fail for the
\* users in Outage and all of them succeed for the others.
PmBoundNext ==
    \/ \E m \in BoundMessages, u \in Users, ok \in BOOLEAN :
           ProcessMessage("w1", MaxPmBoundCalls, m, u, ok)
    \/ FindOne("w1")
    \/ InsertOne("w1")
    \/ /\ pc["w1"] = "generate"
       /\ us["w1"].user_id \notin Outage
       /\ \E s \in Summaries : GenerateOk("w1", s)
    \/ /\ pc["w1"] = "generate"
       /\ us["w1"].user_id \in Outage
       /\ GenerateFail("w1")
    \/ UpdateOne("w1")
    \/ \E r \in Replies : ReplyOk("w1", r)
    \/ \E ok \in BOOLEAN : ReplyFail("w1", ok)

PmBoundSpec == Init /\ [][PmBoundNext]_vars

\* The steps of a process_message call that has started.
PmStep ==
    \/ FindOne("w1")
    \/ InsertOne("w1")
    \/ \E s \in Summaries : GenerateOk("w1", s)
    \/ GenerateFail("w1")
    \/ UpdateOne("w1")
    \/ \E r \in Replies : ReplyOk("w1", r)
    \/ \E ok \in BOOLEAN : ReplyFail("w1", ok)

PmFairNext ==
    \/ \E m \in Messages, u \in Users, ok \in BOOLEAN :
           ProcessMessage("w1", MaxPmFairCalls, m, u, ok)
    \/ PmStep

\* process_message calls made one at a time, when the handler's thread keeps
\* running and every storage, generation and notification call it makes
\* returns or raises.
PmFairSpec == Init /\ [][PmFairNext]_vars /\ WF_vars(PmStep)

\* is_rate_limited calls made one at a time, as time passes.
RlNext ==
    \/ \E u \in Users : IsRateLimited(u)
    \/ Tick

RlSpec == Init /\ [][RlNext]_vars

\* is_rate_limited calls of concurrent webhook deliveries, as time passes.
ThrNext ==
    \/ \E w \in Workers :
           \/ \E u \in Users : ThrCall(w, u)
           \/ ThrGet(w)
           \/ ThrEvict(w)
           \/ ThrStore(w)
           \/ ThrCheck(w)
           \/ ThrAppend(w)
           \/ ThrStoreAgain(w)
    \/ Tick

ThrSpec == Init /\ [][ThrNext]_vars

\* The user whose deliveries worker w handles when every user has a worker
\* of its own.
ServedBy(w) == IF w = "w1" THEN "u1" ELSE "u2"

\* Two users at once: each worker makes the update_summary calls of its
\* user, and is_rate_limited is called for either user in between.
IndepNext ==
    \/ \E w \in Workers :
           \/ \E t \in SeqTexts, r \in Roles :
                  UpdateSummaryCall(w, MaxIndepCalls, ServedBy(w), t, r)
           \/ FindOne(w)
           \/ InsertOne(w)
           \/ \E s \in Summaries : GenerateOk(w, s)
           \/ GenerateFail(w)
           \/ UpdateOne(w)
    \/ \E u \in Users : rl.calls < MaxIndepRlCalls /\ IsRateLimited(u)

IndepSpec == Init /\ [][IndepNext]_vars

\* ------------------------------------------------------- observed quantities
\* The ConversationState stored for a user, as a reader of the collection
\* sees it; a user without a record has the initial state.
StoredOf(u) ==
    IF find_one(conversation_summaries, u) = None THEN NewRecord(u)
    ELSE find_one(conversation_summaries, u)[1]

HasRecord(u) == find_one(conversation_summaries, u) # None

\* The generation calls worker w made for compaction during its current call.
CompactionCalls(w) ==
    { i \in 1..Len(log[w]) : log[w][i].call = "get_llm_response"
                             /\ log[w][i].subject = "compaction" }

Compacted(w) == \E i \in CompactionCalls(w) : log[w][i].ok

\* The line the current update_summary call of worker w appends.
LineOf(w) == <<us[w].role, ": ">> \o us[w].new_message \o <<"\n">>

IsPrefix(s, t) == Len(s) <= Len(t) /\ SubSeq(t, 1, Len(s)) = s

\* ------------------------------------------------------------------ claims

\* C1: for two update_summary executions for the same user that overlap in
\* time, once both have returned the line appended by each is in the stored
\* buffer or was in the buffer of a successful compaction prompt.
C1_NoLostUpdate ==
    \A w1, w2 \in Workers :
        ( /\ w1 # w2
          /\ pc[w1] = "done" /\ pc[w2] = "done"
          /\ us[w1].overlapped /\ us[w2].overlapped
          /\ us[w1].user_id = us[w2].user_id )
        => \A w \in {w1, w2} :
              \/ Contains(StoredOf(us[w].user_id).buffer, LineOf(w))
              \/ <<us[w].user_id, LineOf(w)>> \in compacted

\* C2: a user that started with no record and has had exactly
\* UPDATE_THRESHOLD - 1 User-role appends, made one after the other, has
\* unsummarized_count = UPDATE_THRESHOLD - 1 and the initial empty summary,
\* and no generation call has been made for it.
C2_BelowThreshold ==
    \A u \in Users :
        ( /\ pc["w1"] = "done"
          /\ appends[u]["User"] = UPDATE_THRESHOLD - 1
          /\ appends[u]["Bot"] = 0 )
        => /\ HasRecord(u)
           /\ StoredOf(u).unsummarized_count = UPDATE_THRESHOLD - 1
           /\ StoredOf(u).summary = <<>>
           /\ gen_calls[u] = 0

C2_Witness ==
    /\ pc["w1"] = "done"
    /\ appends["u1"]["User"] = UPDATE_THRESHOLD - 1
    /\ appends["u1"]["Bot"] = 0
    /\ StoredOf("u1").unsummarized_count = UPDATE_THRESHOLD - 1

\* The returned User-role append of w that found unsummarized_count at
\* UPDATE_THRESHOLD - 1 and so brought it to UPDATE_THRESHOLD.
Triggering(w) ==
    /\ pc[w] = "done"
    /\ ~pm[w].active
    /\ us[w].role = "User"
    /\ us[w].record # None
    /\ us[w].record[1].unsummarized_count = UPDATE_THRESHOLD - 1

\* C3: the User-role append that brings unsummarized_count to
\* UPDATE_THRESHOLD makes exactly one generation call; when it succeeds, the
\* stored buffer is empty, the stored count is 0, and the stored summary and
\* the value returned are the text the generation call returned.
C3_ThresholdCompacts ==
    Triggering("w1") =>
        /\ Cardinality(CompactionCalls("w1")) = 1
        /\ \A i \in CompactionCalls("w1") :
              log["w1"][i].ok =>
                 /\ StoredOf(us["w1"].user_id).buffer = <<>>
                 /\ StoredOf(us["w1"].user_id).unsummarized_count = 0
                 /\ StoredOf(us["w1"].user_id).summary = log["w1"][i].value
                 /\ result["w1"] =
                        [kind |-> "returned", value |-> log["w1"][i].value]

C3_Witness ==
    /\ Triggering("w1")
    /\ Compacted("w1")
    /\ StoredOf(us["w1"].user_id).summary = <<"S", "2">>
    /\ StoredOf(us["w1"].user_id).buffer = <<>>

\* The compaction generation call of w's current call failed.
CompactionFailedIn(w) == \E i \in CompactionCalls(w) : ~log[w][i].ok

\* C4: when the generation call of a compaction-triggering append fails, the
\* append returns (it does not raise) the summary stored before the call, the
\* stored summary is unchanged, the stored buffer is the buffer stored before
\* the call followed by the triggering turn, and unsummarized_count is not
\* reset.
C4_FailedCompactionKeepsPending ==
    [][ (pc["w1"] = "update_one" /\ CompactionFailedIn("w1")) =>
          LET u == us["w1"].user_id
              before == StoredOf(u)
              after == StoredOf(u)'
          IN  /\ result'["w1"] =
                     [kind |-> "returned", value |-> before.summary]
              /\ after.summary = before.summary
              /\ after.buffer = before.buffer \o LineOf("w1")
              /\ after.unsummarized_count =
                     before.unsummarized_count
                         + (IF us["w1"].role = "User" THEN 1 ELSE 0)
              /\ after.unsummarized_count >= UPDATE_THRESHOLD ]_vars

\* A failed compaction over a summary that an earlier compaction produced.
C4_Witness ==
    /\ pc["w1"] = "done"
    /\ CompactionFailedIn("w1")
    /\ result["w1"].kind = "returned"
    /\ result["w1"].value # <<>>
    /\ StoredOf(us["w1"].user_id).unsummarized_count >= UPDATE_THRESHOLD

\* C5: a Bot-role append in which no compaction succeeds leaves the stored
\* unsummarized_count as it is; however many Bot-role appends are made one
\* after the other, none of them increments it.
C5_BotNeverCounts ==
    [][ \A u \in Users :
          ( /\ us["w1"].role = "Bot"
            /\ StoredOf(u)'.unsummarized_count # StoredOf(u).unsummarized_count )
          => /\ Compacted("w1")
             /\ StoredOf(u)'.unsummarized_count = 0 ]_vars

\* Two Bot-role appends have returned and the count they found is still there.
C5_Witness ==
    /\ pc["w1"] = "done"
    /\ us["w1"].role = "Bot"
    /\ ~Compacted("w1")
    /\ appends[us["w1"].user_id]["Bot"] >= 2
    /\ StoredOf(us["w1"].user_id).unsummarized_count = 2

\* C6: in appends made one after the other, the stored count decreases and
\* the stored buffer loses content only in an append whose compaction
\* generation call succeeded, and then the count is 0 and the buffer empty;
\* every other append leaves the count non-decreasing and extends the buffer
\* by exactly one role-tagged line.
C6_AppendOnlyUntilCompaction ==
    [][ \A u \in Users :
          LET before == StoredOf(u)
              after == StoredOf(u)'
              writes == pc["w1"] = "update_one" /\ us["w1"].user_id = u
          IN  /\ ( \/ after.unsummarized_count < before.unsummarized_count
                   \/ ~IsPrefix(before.buffer, after.buffer) )
                 => /\ writes /\ Compacted("w1")
                    /\ after.unsummarized_count = 0
                    /\ after.buffer = <<>>
              /\ (writes /\ ~Compacted("w1"))
                 => /\ after.unsummarized_count >= before.unsummarized_count
                    /\ \E r \in Roles, t \in TurnTexts :
                          after.buffer =
                              before.buffer \o <<r, ": ">> \o t \o <<"\n">> ]_vars

\* A successful compaction has emptied a buffer and a later append extended it.
C6_Witness ==
    /\ pc["w1"] = "done"
    /\ gen_calls[us["w1"].user_id] >= 1
    /\ StoredOf(us["w1"].user_id).summary # <<>>
    /\ Len(StoredOf(us["w1"].user_id).buffer) = 8

\* A message that is None or empty once its surrounding whitespace is gone.
IsBlank(message_text) ==
    \/ message_text = None
    \/ \A i \in 1..Len(message_text[1]) : message_text[1][i] \in Whitespace

\* C7: process_message with a None message, or with a message that is empty
\* after trimming, returns the fallback string without any storage,
\* generation or notification call, and leaves every ConversationState
\* unchanged.
C7_BlankMessageFallback ==
    [][ ( /\ calls' = calls + 1
          /\ pm'["w1"].active
          /\ IsBlank(pm'["w1"].message_text) )
        => /\ pc'["w1"] = "done"
           /\ result'["w1"] =
                  [kind |-> "returned",
                   value |-> <<"I didn't catch that. Could you please repeat?">>]
           /\ log'["w1"] = <<>>
           /\ UNCHANGED <<conversation_summaries, gen_calls, appends>> ]_vars

\* A whitespace-only message was answered with the fallback while a
\* ConversationState with pending turns was stored.
C7_Witness ==
    /\ pc["w1"] = "done"
    /\ pm["w1"].message_text = <<<<" ", "\t">>>>
    /\ result["w1"].kind = "returned"
    /\ log["w1"] = <<>>
    /\ conversation_summaries # <<>>

\* C8: with limit N, the first N calls for a user made within one window of
\* 3600 seconds are admitted, the (N+1)th call within that window is
\* rejected, and a call made when at least one recorded timestamp is 3600
\* seconds old or more is admitted.
C8_SlidingWindow ==
    /\ \A u \in Users : \A k \in 1..Len(admit_log[u]) :
          (admit_log[u][k][1] - admit_log[u][1][1] < 3600) =>
              /\ (k <= DEFAULT_RATE_LIMIT_PER_HOUR => ~admit_log[u][k][2])
              /\ (k = DEFAULT_RATE_LIMIT_PER_HOUR + 1 => admit_log[u][k][2])
    /\ (rl.calls > 0
        /\ \E i \in 1..Len(rl.before) : rl.current_time - rl.before[i] >= 3600)
       => ~rl.limited

\* A user was admitted N times, rejected, and admitted again after an
\* admission left the window.
C8_Witness ==
    \E u \in Users :
        /\ Len(admit_log[u]) = DEFAULT_RATE_LIMIT_PER_HOUR + 2
        /\ admit_log[u][DEFAULT_RATE_LIMIT_PER_HOUR + 1][2]
        /\ ~admit_log[u][DEFAULT_RATE_LIMIT_PER_HOUR + 2][2]
        /\ rl.user_id = u
        /\ Len(rl.before) = DEFAULT_RATE_LIMIT_PER_HOUR

\* C9: a rejected is_rate_limited call records nothing: the stored sequence
\* is the one stored before the call without its entries that are 3600
\* seconds old or more.
C9_RejectedNotRecorded ==
    (rl.calls > 0 /\ rl.limited) =>
        /\ rl.user_id \in DOMAIN user_message_timestamps
        /\ user_message_timestamps[rl.user_id] =
               SelectSeq(rl.before,
                         LAMBDA t : ~(rl.current_time - t >= 3600))

\* A user was rejected twice in a row, the second time later than the first.
C9_Witness ==
    \E u \in Users :
        /\ rl.user_id = u
        /\ rl.limited
        /\ Len(admit_log[u]) > DEFAULT_RATE_LIMIT_PER_HOUR + 1
        /\ admit_log[u][Len(admit_log[u]) - 1][2]
        /\ admit_log[u][Len(admit_log[u]) - 1][1] < rl.current_time
        /\ user_message_timestamps[u] = rl.before

\* The reply generation call of w's current process_message call failed.
ReplyFailedIn(w) ==
    \E i \in 1..Len(log[w]) :
        /\ log[w][i].call = "get_llm_response"
        /\ log[w][i].subject = "reply"
        /\ ~log[w][i].ok

\* The failure alerts attempted during w's current call.
FailureAlerts(w) ==
    { i \in 1..Len(log[w]) : log[w][i].call = "send_email_alert"
                             /\ log[w][i].subject = "LLM API Failure" }

\* C10: when the reply generation call of process_message fails, exactly one
\* alert with subject "LLM API Failure" and a body containing the user_id
\* and the prompt is attempted after it, and then the generation failure is
\* raised to the caller, whether or not the alert went through; no reply is
\* returned.
C10_ReplyFailureAlertsAndRaises ==
    ReplyFailedIn("w1") =>
        /\ pc["w1"] = "done"
        /\ result["w1"] = [kind |-> "raised", value |-> <<"LLMError">>]
        /\ Cardinality(FailureAlerts("w1")) = 1
        /\ FailureAlerts("w1") = {Len(log["w1"])}
        /\ ~log["w1"][Len(log["w1"]) - 1].ok
        /\ \A i \in FailureAlerts("w1") :
              /\ Contains(log["w1"][i].text, <<pm["w1"].user_id>>)
              /\ Contains(log["w1"][i].text, pm["w1"].prompt)
              /\ pm["w1"].prompt # <<>>

\* The reply generation failed and so did the alert about it.
C10_Witness ==
    /\ ReplyFailedIn("w1")
    /\ \E i \in FailureAlerts("w1") : ~log["w1"][i].ok
    /\ result["w1"].kind = "raised"

\* The media alerts attempted during w's current call.
MediaAlerts(w) ==
    { i \in 1..Len(log[w]) : log[w][i].call = "send_email_alert"
                             /\ log[w][i].subject = "Media Request Detected" }

\* w's current process_message call got a message that is not blank and
\* names a media keyword.
MediaCall(w) ==
    /\ pm[w].active
    /\ pm[w].at # "fallback"
    /\ check_media_request(pm[w].processed_text)

\* C11: a process_message call whose non-blank message contains "video",
\* "photo" or "voice" in any letter case attempts exactly one alert with
\* subject "Media Request Detected", as its first collaborator call, and
\* whether or not the alert went through the call goes on as a call without
\* the keyword does: it starts the User-role append of the trimmed text
\* with the stored state untouched, and it ends by returning the generated
\* reply after the Bot-role append, or by raising the reply generation
\* failure.
C11_MediaAlertOnceNoEffect ==
    [][ MediaCall("w1")' =>
          /\ MediaAlerts("w1")' = {1}
          /\ (calls' = calls + 1) =>
                /\ pc'["w1"] = "find_one"
                /\ us'["w1"] = CallFrame(pm'["w1"].user_id,
                                         Strip(pm'["w1"].message_text[1]),
                                         "User")
                /\ result'["w1"] = NoResult
                /\ UNCHANGED <<conversation_summaries, appends, gen_calls,
                               compacted>>
          /\ (pc'["w1"] = "done") =>
                IF ReplyFailedIn("w1")'
                THEN result'["w1"] = Raised("LLMError")
                ELSE /\ result'["w1"] = Returned(pm'["w1"].response)
                     /\ pm'["w1"].response \in Replies
                     /\ us'["w1"].role = "Bot"
                     /\ log'["w1"][Len(log'["w1"])].call = "update_one" ]_vars

\* A media request was answered with the generated reply although its
\* alert did not go through.
C11_Witness ==
    /\ MediaCall("w1")
    /\ pc["w1"] = "done"
    /\ \E i \in MediaAlerts("w1") : ~log["w1"][i].ok
    /\ result["w1"] = Returned(<<"o", "k">>)
    /\ Contains(StoredOf(pm["w1"].user_id).buffer,
                <<"User", ": ", "P", "h", "O", "t", "o", "\n">>)

\* C12: in every reachable state the collection holds at most one
\* ConversationState record per user_id, also when two first calls for a new
\* user both run find_one before either runs insert_one; and a record is
\* only ever created with an empty summary, an empty buffer and count 0.
C12_OneRecordPerUser ==
    [][ /\ \A u \in Users :
              Cardinality(Matching(conversation_summaries', u)) <= 1
        /\ Len(conversation_summaries') > Len(conversation_summaries) =>
              \E u \in Users :
                  conversation_summaries' =
                      Append(conversation_summaries,
                             [user_id |-> u, summary |-> <<>>,
                              unsummarized_count |-> 0, buffer |-> <<>>])
      ]_vars

\* How many times timestamp t occurs in a list.
Occurrences(timestamps, t) ==
    Cardinality({ i \in 1..Len(timestamps) : timestamps[i] = t })

\* C13: with is_rate_limited calls for one user running concurrently, the
\* list stored for a user never holds more than the limit of timestamps
\* within one window of 3600 seconds, and once no call is running every
\* admission that is less than 3600 seconds old has its own timestamp in the
\* list stored for its user.
C13_ConcurrentAdmissions ==
    /\ \A u \in Users :
          LET timestamps == ListAt(stored_list[u])
          IN  \A i \in 1..Len(timestamps) :
                 Cardinality({ j \in 1..Len(timestamps) :
                                 /\ timestamps[j] >= timestamps[i]
                                 /\ timestamps[j] - timestamps[i] < 3600 })
                     <= DEFAULT_RATE_LIMIT_PER_HOUR
    /\ (\A w \in Workers : rlw[w].pc \in {"idle", "returned"}) =>
          \A a \in admitted :
             (now - a[2] < 3600) =>
                 Occurrences(ListAt(stored_list[a[1]]), a[2]) =
                     Cardinality({ b \in admitted :
                                     b[1] = a[1] /\ b[2] = a[2] })

\* C14: for update_summary calls made one after the other, the value a call
\* returns is the summary stored for its user right after the call; when
\* the call makes no compaction generation call, that value is the summary
\* stored before the call, the stored summary is unchanged, and the line the
\* call added to the buffer is not in it.
C14_ReturnsStoredSummary ==
    [][ (pc["w1"] = "update_one" /\ ~pm["w1"].active) =>
          LET u == us["w1"].user_id
              before == StoredOf(u)
              after == StoredOf(u)'
          IN  /\ pc'["w1"] = "done"
              /\ result'["w1"].kind = "returned"
              /\ result'["w1"].value = after.summary
              /\ (CompactionCalls("w1") = {}) =>
                    /\ result'["w1"].value = before.summary
                    /\ after.summary = before.summary
                    /\ after.buffer = before.buffer \o LineOf("w1")
                    /\ ~Contains(result'["w1"].value, LineOf("w1")) ]_vars

\* An append without compaction returned a summary that an earlier
\* compaction had stored, while the buffer had grown.
C14_Witness ==
    /\ pc["w1"] = "done"
    /\ CompactionCalls("w1") = {}
    /\ result["w1"] = Returned(<<"S", "1">>)
    /\ StoredOf(us["w1"].user_id).summary = <<"S", "1">>
    /\ StoredOf(us["w1"].user_id).buffer # <<>>

\* Worker w is between the start of the compaction generation call of its
\* current update_summary call and the update_one that persists its result.
InCompaction(w) ==
    \/ pc[w] = "generate"
    \/ pc[w] = "update_one" /\ CompactionCalls(w) # {}

\* C15: no two update_summary executions for the same user are at the same
\* time between starting their compaction generation call and persisting
\* its result.
C15_NoInterleavedCompactions ==
    \A w1, w2 \in Workers :
        (w1 # w2 /\ InCompaction(w1) /\ InCompaction(w2))
            => us[w1].user_id # us[w2].user_id

\* The documents stored for user u, in collection order.
DocsOf(u) == SelectSeq(conversation_summaries, LAMBDA doc : doc.user_id = u)

\* The update_summary call of worker w is in progress.
Appending(w) == pc[w] \in {"find_one", "insert_one", "generate", "update_one"}

\* C16: users are independent.  A step of an update_summary call changes
\* the documents of the call's user only; an is_rate_limited call changes
\* the timestamps of its user only; and while a compaction generation call
\* for one user is in flight, an update_summary call in progress for another
\* user can take its next step, and its update_one step completes the call
\* with its line stored, or compacted by the call's own compaction.
C16_UsersIndependent ==
    [][ /\ \A u \in Users :
              DocsOf(u)' # DocsOf(u) =>
                  \E w \in Workers : /\ us[w].user_id = u
                                     /\ pc[w] \in {"insert_one", "update_one"}
                                     /\ pc'[w] # pc[w]
        /\ \A u \in Users :
              DictGet(user_message_timestamps', u, <<>>)
                  # DictGet(user_message_timestamps, u, <<>>)
              => rl'.calls = rl.calls + 1 /\ rl'.user_id = u
        /\ \A wA, wB \in Workers :
              ( /\ pc[wA] = "generate"
                /\ Appending(wB)
                /\ us[wB].user_id # us[wA].user_id )
              => /\ ENABLED (FindOne(wB) \/ InsertOne(wB) \/ GenerateFail(wB)
                             \/ UpdateOne(wB))
                 /\ (pc[wB] = "update_one" /\ pc'[wB] # pc[wB]) =>
                       /\ pc'[wB] = "done"
                       /\ pc'[wA] = "generate"
                       /\ \/ Contains(StoredOf(us[wB].user_id)'.buffer,
                                   LineOf(wB))
                          \/ /\ Compacted(wB)
                             /\ <<us[wB].user_id, LineOf(wB)>> \in compacted
                       /\ DocsOf(us[wA].user_id)' = DocsOf(us[wA].user_id)
      ]_vars

\* An append for u2 has completed while the compaction generation call for
\* u1 is in flight, and the last is_rate_limited call admitted u1 while
\* timestamps of u2 were stored.
C16_Witness ==
    /\ pc["w1"] = "generate"
    /\ pc["w2"] = "done"
    /\ us["w2"].user_id = "u2"
    /\ Contains(StoredOf("u2").buffer, LineOf("w2"))
    /\ StoredOf("u1").unsummarized_count = UPDATE_THRESHOLD - 1
    /\ rl.calls = MaxIndepRlCalls
    /\ rl.user_id = "u1"
    /\ ~rl.limited
    /\ "u2" \in DOMAIN user_message_timestamps
    /\ user_message_timestamps["u2"] # <<>>

\* The reply generation calls made during w's current call.
ReplyCalls(w) ==
    { i \in 1..Len(log[w]) : log[w][i].call = "get_llm_response"
                             /\ log[w][i].subject = "reply" }

\* The terminal state of the per-message state machine that w's returned
\* process_message call ended in.
Terminal(w) ==
    CASE pm[w].at = "fallback" -> "Fallback"
      [] pm[w].at = "bot_append" -> "ReplyReturned"
      [] pm[w].at = "failed" -> "Failed"
      [] OTHER -> "none"

\* C17, the order of the steps: a process_message call that has ended is in
\* exactly one of Fallback (the fallback returned, nothing called),
\* ReplyReturned (the reply returned) and Failed (the failure raised); the
\* reply generation is requested once at most, in the step that completes
\* the User-role append; and a Bot-role append is completed only after the
\* reply generation returned, in the step that returns the reply.
C17_Order ==
    [][ /\ (pc'["w1"] = "done") =>
              /\ Terminal("w1")' \in {"Fallback", "ReplyReturned", "Failed"}
              /\ (Terminal("w1")' = "Fallback") <=>
                     (result'["w1"] = Returned(FALLBACK) /\ log'["w1"] = <<>>)
              /\ (Terminal("w1")' = "ReplyReturned") <=>
                     /\ result'["w1"] = Returned(pm'["w1"].response)
                     /\ \E i \in ReplyCalls("w1")' : log'["w1"][i].ok
              /\ (Terminal("w1")' = "Failed") <=>
                     /\ result'["w1"].kind = "raised"
                     /\ ReplyFailedIn("w1")'
        /\ Cardinality(ReplyCalls("w1")') <= 1
        /\ (pc'["w1"] = "reply" /\ pc["w1"] # "reply") =>
              /\ pc["w1"] = "update_one"
              /\ us["w1"].role = "User"
              /\ us["w1"].new_message = pm["w1"].processed_text
              /\ appends'[pm["w1"].user_id]["User"] =
                     appends[pm["w1"].user_id]["User"] + 1
              /\ ReplyCalls("w1") = {}
        /\ \A u \in Users :
              appends'[u]["Bot"] # appends[u]["Bot"] =>
                  /\ u = pm["w1"].user_id
                  /\ \E i \in ReplyCalls("w1") :
                        /\ log["w1"][i].ok
                        /\ log["w1"][i].value = us["w1"].new_message
                  /\ pc'["w1"] = "done"
                  /\ result'["w1"] = Returned(us["w1"].new_message) ]_vars

\* C17: every process_message call follows the per-message state machine in
\* the order above, and, given that every collaborator call returns or
\* raises, a call that has started ends.
C17_StateMachine ==
    /\ C17_Order
    /\ (pc["w1"] \notin {"idle", "done"}) ~> (pc["w1"] = "done")

\* The three terminal states have each been reached by some call: this one
\* ended in Failed after a call that returned a reply.
C17_Witness ==
    /\ pc["w1"] = "done"
    /\ Terminal("w1") = "Failed"
    /\ \E u \in Users : appends[u]["Bot"] >= 1
    /\ calls >= 3

\* The lines of a sequence of lines, one after the other.
RECURSIVE Joined(_)
Joined(lines) ==
    IF lines = <<>> THEN <<>> ELSE Head(lines) \o Joined(Tail(lines))

\* The current update_summary call of w found a record whose count had
\* stayed at or above the threshold: a compaction failed and none has
\* succeeded since.
FoundDegraded(w) ==
    /\ us[w].record # None
    /\ us[w].record[1].unsummarized_count >= UPDATE_THRESHOLD

\* C18, the healing append: while the stored count is at or above the
\* threshold every append goes to the generation call; when that call
\* succeeds, its prompt holds the stale stored summary and a buffer made of
\* every line appended since the last successful compaction followed by the
\* line of this append, and the update that follows stores the new summary,
\* an empty buffer and count 0.
C18_HealingAppend ==
    [][ LET u == us["w1"].user_id
            before == StoredOf(u)
            after == StoredOf(u)'
        IN  /\ ( /\ pc["w1"] = "find_one"
                 /\ before.unsummarized_count >= UPDATE_THRESHOLD )
               => pc'["w1"] = "generate"
            /\ ( /\ pc["w1"] = "generate"
                 /\ FoundDegraded("w1")
                 /\ Compacted("w1")' )
               => /\ Len(pending[u]) >= UPDATE_THRESHOLD
                  /\ before.buffer = Joined(pending[u])
                  /\ log'["w1"][Len(log'["w1"])].text =
                        <<"You are tasked with summarizing the conversation between a user and a bot. Below is the current summary and the new interactions since the last summary update. Generate an updated, concise summary that captures all key points and changes in context.\n",
                          "Current Summary: ">>
                            \o before.summary \o <<"\n", "New Interactions: ">>
                            \o Joined(pending[u]) \o LineOf("w1")
                            \o <<"\n", "Output only the new summary text.">>
            /\ ( /\ pc["w1"] = "update_one"
                 /\ FoundDegraded("w1")
                 /\ Compacted("w1") )
               => /\ \E i \in CompactionCalls("w1") :
                        after.summary = log["w1"][i].value
                  /\ after.buffer = <<>>
                  /\ after.unsummarized_count = 0 ]_vars

\* C18: degraded mode heals in the healing append described above, and once
\* the generation adapter has stopped failing for a user, an append that
\* arrives for that user while its stored count is at or above the threshold
\* leads to the stored count being 0.
C18_SelfHeals ==
    /\ C18_HealingAppend
    /\ \A u \in Users :
          ( /\ pc["w1"] = "find_one"
            /\ us["w1"].user_id = u
            /\ StoredOf(u).unsummarized_count >= UPDATE_THRESHOLD
            /\ gen_calls[u] >= MaxHealFailures )
          ~> (StoredOf(u).unsummarized_count = 0)

\* Two compactions in a row failed for a user and the next append, which
\* found count UPDATE_THRESHOLD + 1, stored a new summary.
C18_Witness ==
    /\ pc["w1"] = "done"
    /\ FoundDegraded("w1")
    /\ us["w1"].record[1].unsummarized_count > UPDATE_THRESHOLD
    /\ Compacted("w1")
    /\ gen_calls[us["w1"].user_id] = MaxHealFailures + 1
    /\ StoredOf(us["w1"].user_id).summary # <<>>
    /\ StoredOf(us["w1"].user_id).unsummarized_count = 0

\* The number of User-role lines among the lines.
UserTurns(lines) ==
    Cardinality({ i \in 1..Len(lines) : lines[i][1] = "User" })

\* At least UPDATE_THRESHOLD User turns have been appended for u since the
\* last successful compaction: in calls made one after the other, a
\* compaction attempt for u has failed and none has succeeded since.
FailedBefore(u) == UserTurns(pending[u]) >= UPDATE_THRESHOLD

\* C19 as stated: after a compaction attempt has failed, an append does not
\* attempt compaction as long as fewer than UPDATE_THRESHOLD further User
\* turns have been added to the pending ones.
C19_NoRetryOnNextAppend ==
    [][ LET u == us["w1"].user_id
        IN  ( /\ pc["w1"] = "find_one"
              /\ FailedBefore(u)
              /\ StoredOf(u).unsummarized_count
                     + (IF us["w1"].role = "User" THEN 1 ELSE 0)
                 < 2 * UPDATE_THRESHOLD )
            => pc'["w1"] # "generate" ]_vars

\* C19, amended: after a compaction attempt has failed, the stored count
\* stays at or above UPDATE_THRESHOLD, and every append for that user, of
\* either role and starting with the very next one, makes exactly one
\* compaction generation call, until one succeeds.
C19_RetriedOnEveryAppend ==
    [][ LET u == us["w1"].user_id
        IN  /\ (pc["w1"] = "find_one" /\ FailedBefore(u)) =>
                  /\ StoredOf(u).unsummarized_count >= UPDATE_THRESHOLD
                  /\ pc'["w1"] = "generate"
            /\ (pc'["w1"] = "done" /\ pc["w1"] # "done"
                /\ FailedBefore(u)) =>
                  Cardinality(CompactionCalls("w1")') = 1 ]_vars

\* The User-role append that came right after a failed compaction attempt
\* made a generation call again, which failed too.
C19_Witness ==
    /\ pc["w1"] = "done"
    /\ us["w1"].role = "User"
    /\ FoundDegraded("w1")
    /\ us["w1"].record[1].unsummarized_count = UPDATE_THRESHOLD
    /\ CompactionFailedIn("w1")
    /\ gen_calls[us["w1"].user_id] = 2
    /\ appends[us["w1"].user_id]["Bot"] = 0

\* C20: a Bot-role update_summary call never makes a generation call, also
\* when it finds a stored unsummarized_count at or above UPDATE_THRESHOLD
\* left by a failed compaction.
C20_BotNeverGenerates ==
    \A w \in Workers :
        (~pm[w].active /\ us[w].role = "Bot") => CompactionCalls(w) = {}

\* The writes to the collection made during w's current call.
Writes(w) ==
    { i \in 1..Len(log[w]) : log[w][i].call \in {"insert_one", "update_one"} }

\* C21 as stated: an update_summary call, the first one for a user
\* included, writes to the collection exactly once, so that while the call
\* is in progress nothing of it has been written and once it has returned
\* one write has been made.
C21_SingleAtomicWrite ==
    \A w \in Workers :
        /\ Appending(w) => Writes(w) = {}
        /\ (pc[w] = "done" /\ ~pm[w].active) => Cardinality(Writes(w)) = 1

\* C21, amended: every update_summary call ends with one update_one that
\* sets buffer, unsummarized_count and last_updated (and summary when the
\* compaction succeeded) of one document together, from the call's own
\* snapshot, and changes nothing else; the only other write a call makes
\* is the insert_one of the empty record, made before it by a call whose
\* find_one found no record, so what a concurrent reader can see of a call
\* in progress is that empty record.
C21_OneUpdateAfterCreation ==
    [][ /\ \A w \in Workers :
              (pc[w] = "update_one" /\ pc'[w] # pc[w]) =>
                 LET u == us[w].user_id
                     i == FirstMatch(conversation_summaries, u)
                     old == conversation_summaries[i]
                     new == conversation_summaries'[i]
                     snapshot == us[w].record[1]
                 IN  /\ Matching(conversation_summaries, u) # {}
                     /\ conversation_summaries' =
                            [conversation_summaries EXCEPT ![i] = new]
                     /\ DOMAIN new = {"user_id", "summary", "buffer",
                                      "unsummarized_count", "last_updated"}
                     /\ new.user_id = u
                     /\ new.last_updated = now
                     /\ IF Compacted(w)
                        THEN /\ new.buffer = <<>>
                             /\ new.unsummarized_count = 0
                             /\ \E k \in CompactionCalls(w) :
                                   new.summary = log[w][k].value
                        ELSE /\ new.buffer = snapshot.buffer \o LineOf(w)
                             /\ new.unsummarized_count =
                                    snapshot.unsummarized_count
                                      + (IF us[w].role = "User" THEN 1 ELSE 0)
                             /\ new.summary = old.summary
                     /\ pc'[w] = "done"
                     /\ Cardinality({ k \in Writes(w)' :
                                        log'[w][k].call = "update_one" }) = 1
                     /\ Cardinality(Writes(w)') <= 2
        /\ conversation_summaries' # conversation_summaries =>
              \E w \in Workers :
                 /\ pc'[w] # pc[w]
                 /\ \/ pc[w] = "update_one"
                    \/ /\ pc[w] = "insert_one"
                       /\ Writes(w) = {}
                       /\ conversation_summaries' =
                              Append(conversation_summaries,
                                     [user_id |-> us[w].user_id,
                                      summary |-> <<>>,
                                      unsummarized_count |-> 0,
                                      buffer |-> <<>>]) ]_vars

\* The first call for a user has created the empty record and not yet
\* stored its turn, and a concurrent call for the same user has read that
\* empty record.
C21_Witness ==
    \E w, v \in Workers :
        /\ w # v
        /\ pc[w] = "update_one"
        /\ Cardinality(Writes(w)) = 1
        /\ us[v].user_id = us[w].user_id
        /\ pc[v] = "update_one"
        /\ Writes(v) = {}
        /\ us[v].record = <<[user_id |-> us[w].user_id, summary |-> <<>>,
                             unsummarized_count |-> 0, buffer |-> <<>>]>>
        /\ appends[us[w].user_id] = [r \in Roles |-> 0]

\* The number of User-role lines in a buffer: the positions where a line
\* starts with the role tag "User".
UserTurnsIn(buffer) ==
    Cardinality({ k \in 1..Len(buffer) :
                    /\ buffer[k] = "User"
                    /\ k < Len(buffer) /\ buffer[k + 1] = ": "
                    /\ (k = 1 \/ buffer[k - 1] = "\n") })

\* C22: in every reachable state, under every interleaving of concurrent
\* update_summary calls, the unsummarized_count of every stored record is
\* the number of User-role turns in the buffer of that record.
C22_CountMatchesBuffer ==
    \A i \in 1..Len(conversation_summaries) :
        conversation_summaries[i].unsummarized_count =
            UserTurnsIn(conversation_summaries[i].buffer)

\* Two overlapping User-role appends for one user have both returned, one
\* of them was overwritten by the other, and the stored count is 1 for the
\* one User turn that is left in the buffer.
C22_Witness ==
    \E u \in Users :
        /\ \A w \in Workers : pc[w] = "done" /\ us[w].user_id = u
                              /\ us[w].overlapped
        /\ appends[u] = [r \in Roles |-> IF r = "User" THEN 2 ELSE 0]
        /\ StoredOf(u).unsummarized_count = 1
        /\ StoredOf(u).buffer = <<"User", ": ", "a", "\n">>


\* The number of turns a stored buffer holds: its lines that start with a
\* role tag.
TurnsIn(buffer) ==
    Cardinality({ k \in 1..Len(buffer) :
                    /\ buffer[k] \in Roles
                    /\ k < Len(buffer) /\ buffer[k + 1] = ": "
                    /\ (k = 1 \/ buffer[k - 1] = "\n") })

\* C23: bounded pending context.  When process_message calls run one at a
\* time and every compaction generation call for a user succeeds, then
\* after each call the user's stored unsummarized_count is at most
\* UPDATE_THRESHOLD - 1 and the stored buffer holds at most
\* 2 * UPDATE_THRESHOLD - 1 turns.  When every compaction generation call
\* for a user fails, the stored buffer holds every turn appended for the
\* user so far, one more after each append, the summary is never written
\* and the count is the number of User-role appends, whatever their number.
C23_BoundedPending ==
    \A u \in Users :
        LET d == StoredOf(u)
        IN  /\ (u \notin Outage /\ pc["w1"] \in {"idle", "done"})
                   => /\ d.unsummarized_count <= UPDATE_THRESHOLD - 1
                      /\ TurnsIn(d.buffer) <= 2 * UPDATE_THRESHOLD - 1
            /\ u \in Outage
                   => /\ TurnsIn(d.buffer)
                             = appends[u]["User"] + appends[u]["Bot"]
                      /\ d.unsummarized_count = appends[u]["User"]
                      /\ d.summary = NewRecord(u).summary

\* After a call, a user whose compactions all succeeded holds the largest
\* buffer and count the bound allows, while a user whose compactions all
\* failed holds more turns than that bound and a count at the threshold.
C23_Witness ==
    /\ pc["w1"] = "done"
    /\ \E u \in Users \ Outage :
           /\ StoredOf(u).unsummarized_count = UPDATE_THRESHOLD - 1
           /\ TurnsIn(StoredOf(u).buffer) = 2 * UPDATE_THRESHOLD - 1
           /\ \E c \in compacted : c[1] = u
    /\ \E u \in Outage :
           /\ TurnsIn(StoredOf(u).buffer) > 2 * UPDATE_THRESHOLD - 1
           /\ StoredOf(u).unsummarized_count >= UPDATE_THRESHOLD
           /\ gen_calls[u] > 0


\* w's current process_message call ended in Failed.
Failed(w) == pm[w].active /\ pm[w].at = "failed" /\ pc[w] = "done"

\* The update_one writes of w's current call.
Updates(w) == { i \in 1..Len(log[w]) : log[w][i].call = "update_one" }

\* C24: a process_message call that ends in Failed because reply generation
\* raised is not rolled back.  When the call has ended, the only append it
\* made is the User-role append of its message; if that append compacted,
\* the stored summary is the generated one, the buffer is empty and the
\* count is 0; otherwise the stored buffer is the buffer the append read
\* followed by the User-role line, the count is the count it read plus one
\* and the summary is the one it read.  No Bot-role line follows.
C24_FailedKeepsUserTurn ==
    ReplyFailedIn("w1") =>
        LET f == us["w1"]
            d == StoredOf(pm["w1"].user_id)
        IN  /\ Failed("w1")
            /\ result["w1"].kind = "raised"
            /\ HasRecord(pm["w1"].user_id)
            /\ f.user_id = pm["w1"].user_id
            /\ f.role = "User"
            /\ f.new_message = pm["w1"].processed_text
            /\ Cardinality(Updates("w1")) = 1
            /\ appends[f.user_id]["User"] >= 1
            /\ IF Compacted("w1")
               THEN /\ \E i \in CompactionCalls("w1") :
                          log["w1"][i].ok /\ d.summary = log["w1"][i].value
                    /\ d.buffer = <<>>
                    /\ d.unsummarized_count = 0
                    /\ <<f.user_id, LineOf("w1")>> \in compacted
               ELSE /\ d.buffer = f.record[1].buffer \o LineOf("w1")
                    /\ d.unsummarized_count
                           = f.record[1].unsummarized_count + 1
                    /\ d.summary = f.record[1].summary

\* A call ended in Failed after its User-role append compacted the buffer
\* that two earlier calls for the same user had filled.
C24_Witness ==
    /\ Failed("w1")
    /\ Compacted("w1")
    /\ ReplyFailedIn("w1")
    /\ us["w1"].record[1].unsummarized_count = UPDATE_THRESHOLD - 1
    /\ StoredOf(pm["w1"].user_id).buffer = <<>>
    /\ StoredOf(pm["w1"].user_id).summary \in Summaries

=============================================================================
